---- MODULE Spec2Model ----
(***************************************************************************)
(* Users_heart_rates: the schema, the seeder, the emptiness guard, the     *)
(* entry point and the two analytical queries of Project/main.py, the      *)
(* validators of Project/validation.py and the GROUP BY hourly query of    *)
(* Project/playground.py.                                                  *)
(*                                                                         *)
(* Time is counted in ticks; a calendar hour is TicksPerHour ticks, a day  *)
(* HoursPerDay hours.  Heart rates and thresholds are integers.  A column  *)
(* value is <<x>>, SQL NULL is <<>>.  A Python argument is a tagged value  *)
(* [t |-> type name, v |-> payload].                                       *)
(***************************************************************************)
EXTENDS Integers, Sequences, FiniteSets, TLC

VARIABLES
    dbTables,     \* whether tables users and heart_rates exist in the database
    users,        \* committed rows of table users
    readings,     \* committed rows of table heart_rates
    txUsers,      \* user rows written by the open transaction, not committed
    txReadings,   \* reading rows written by the open transaction, not committed
    op,           \* the top-level call in progress or last finished
    pc,           \* position inside that call
    args,         \* its arguments
    locals,       \* its local variables
    outcome,      \* how it ended: [status, err, by]
    result,       \* the value it returned
    dbOpened,     \* whether the call has opened a database connection
    snap,         \* the committed store when the call started
    mainTrace,    \* the steps the running main() has completed, in order
    calls         \* number of top-level calls made so far

vars == <<dbTables, users, readings, txUsers, txReadings, op, pc, args, locals,
          outcome, result, dbOpened, snap, mainTrace, calls>>

----------------------------------------------------------------------------
(* Values *)

NULL == <<>>
Some(x) == <<x>>
IsNull(c) == c = <<>>
Val(c) == c[1]

PyInt(n) == [t |-> "int", v |-> n, s |-> ""]
PyFloat(n) == [t |-> "float", v |-> n, s |-> ""]
PyStr(str) == [t |-> "str", v |-> 0, s |-> str]
PyDatetime(n) == [t |-> "datetime", v |-> n, s |-> ""]
PyNone == [t |-> "NoneType", v |-> 0, s |-> ""]

\* isinstance(x, int), isinstance(x, (float, int)), isinstance(x, datetime)
IsInstanceInt(x) == x.t = "int"
IsInstanceNumber(x) == x.t \in {"float", "int"}
IsInstanceDatetime(x) == x.t = "datetime"

Max(S) == CHOOSE x \in S : \A y \in S : y <= x
NextId(rows) == IF rows = {} THEN 1 ELSE Max({r.id : r \in rows}) + 1

Ok == [status |-> "returned", err |-> "none", by |-> "none"]
Raised(e, where) == [status |-> "raised", err |-> e, by |-> where]
NoOutcome == [status |-> "running", err |-> "none", by |-> "none"]

----------------------------------------------------------------------------
(* Bounds of the model *)

\* calls of populate_tables and runs of main() in one behaviour
MaxCalls == 2
\* largest num_of_users / num_of_hr_records passed to populate_tables
MaxCount == 1

----------------------------------------------------------------------------
(* Schema: main.py 22-51 *)

\* the Table objects registered on the module-level MetaData object
MetadataTables == {"users", "heart_rates"}

\* check_and_create_tables: create_all runs only when a table is missing from
\* the in-memory MetaData
CreateAllNeeded == "users" \notin MetadataTables \/ "heart_rates" \notin MetadataTables

CheckAndCreateTables(tables) == IF CreateAllNeeded THEN TRUE ELSE tables

----------------------------------------------------------------------------
(* Seeder: main.py 54-97, validation.py 3-17 *)

ValidatePopulateTableParams(num_of_users, num_of_hr_records, age_to, age_from) ==
    IF ~IsInstanceInt(num_of_users) THEN Raised("ValueError", "validate_populate_table_params")
    ELSE IF ~IsInstanceInt(num_of_hr_records) THEN Raised("ValueError", "validate_populate_table_params")
    ELSE IF ~IsInstanceInt(age_to) THEN Raised("ValueError", "validate_populate_table_params")
    ELSE IF ~IsInstanceInt(age_from) THEN Raised("ValueError", "validate_populate_table_params")
    ELSE IF age_to.v >= age_from.v THEN Raised("ValueError", "validate_populate_table_params")
    ELSE Ok

\* inputs of the model
Names == {"Ann"}
Genders == {"M", "F"}
\* round(random.uniform(40, 180), 1): the two ends of the range
HeartRateLow == 40
HeartRateHigh == 180
HeartRateVals == {HeartRateLow, HeartRateHigh}
\* the draws of the seeder in Spec, whose properties read no heart rate; the
\* query specifications vary the heart rates of the store
SeedHeartRates == {HeartRateHigh}

\* the rows an INSERT ... VALUES of an empty list adds: none, or one row of
\* column defaults (the statement then carries no values at all)
EmptyInsertRows == {0, 1}

DefaultUser(id) == [id |-> id, name |-> NULL, gender |-> NULL, age |-> NULL]
DefaultReading(id) == [id |-> id, user_id |-> NULL, timestamp |-> NULL, heart_rate |-> NULL]

Range(n) == 0 .. (n - 1)

\* lines 67-74: the user dictionaries; random.randint(a, b) raises on a > b
RandintRaises(num_of_users, age_from, age_to) == num_of_users >= 1 /\ age_from > age_to

UserBatches(num_of_users, age_from, age_to) ==
    [Range(num_of_users) -> [name : Names, gender : Genders, age : age_from .. age_to]]

UserRows(batch, base) ==
    {[id |-> base + k, name |-> Some(batch[k].name), gender |-> Some(batch[k].gender),
      age |-> Some(batch[k].age)] : k \in DOMAIN batch}

\* ascending list of a set of ids
RECURSIVE SortedIds(_)
SortedIds(S) == IF S = {} THEN <<>>
                ELSE LET m == CHOOSE x \in S : \A y \in S : x <= y
                     IN <<m>> \o SortedIds(S \ {m})

\* lines 83-94: one record per fetched user id and per i in range(num_of_hr_records),
\* at start_date + 30 s * i (one tick is 30 s here)
ReadingRows(user_ids, num_of_hr_records, start_date, hr, base) ==
    {[id |-> base + (j - 1) * num_of_hr_records + i,
      user_id |-> Some(user_ids[j]),
      timestamp |-> Some(start_date + i),
      heart_rate |-> Some(hr[<<j, i>>])] :
        <<j, i>> \in (DOMAIN user_ids) \X Range(num_of_hr_records)}

\* a connection that keeps what it wrote when the block is left on an error
RollbackKeepsWrites ==
    /\ users' = users \cup txUsers
    /\ readings' = readings \cup txReadings
    /\ txUsers' = {}
    /\ txReadings' = {}

\* leaving "async with engine.connect()" without commit rolls the transaction back
Rollback ==
    /\ txUsers' = {}
    /\ txReadings' = {}
    /\ UNCHANGED <<users, readings>>

\* conn.commit()
Commit ==
    /\ users' = users \cup txUsers
    /\ readings' = readings \cup txReadings
    /\ txUsers' = {}
    /\ txReadings' = {}

----------------------------------------------------------------------------
(* Emptiness guard: main.py 99-114 *)

\* select(exists().where(users_table.c.id != None)); id is the primary key, an integer
UsersExist(us) == \E u \in us : u.id \in Int
\* select(exists().where(heart_rates_table.c.id != None))
HeartRatesExist(rs) == \E r \in rs : r.id \in Int

\* the guard with "or" in place of "and"
DatabaseExistsEither(us, rs) == UsersExist(us) \/ HeartRatesExist(rs)

\* line 114
DatabaseExists(us, rs) == UsersExist(us) /\ HeartRatesExist(rs)

----------------------------------------------------------------------------
(* Time and arithmetic used by the queries *)

\* a tick is 30 s, the seeder's sampling interval: 60 * 2 readings per hour
TicksPerHour == 120
HoursPerDay == 24
TicksPerDay == HoursPerDay * TicksPerHour

RECURSIVE Gcd(_, _)
Gcd(a, b) == IF b = 0 THEN a ELSE Gcd(b, a % b)

RECURSIVE SumHeartRate(_)
SumHeartRate(rows) ==
    IF rows = {} THEN 0
    ELSE LET r == CHOOSE x \in rows : TRUE
         IN Val(r.heart_rate) + SumHeartRate(rows \ {r})

\* AVG(heart_rate) of a non-empty group, as the fraction <<n, d>> in lowest terms
Avg(rows) ==
    LET s == SumHeartRate(rows)
        c == Cardinality(rows)
        g == Gcd(s, c)
    IN <<s \div g, c \div g>>

FracGt(a, b) == a[1] * b[2] > b[1] * a[2]
FracGe(a, b) == a[1] * b[2] >= b[1] * a[2]

\* str.upper() on the strings of the model
Upper(s) ==
    CASE s = "m" -> "M"
      [] s = "f" -> "F"
      [] s = "x" -> "X"
      [] OTHER -> s

\* rows of heart_rates that carry a user, a time and a value
Measured(rs) == {r \in rs : r.user_id # NULL /\ r.timestamp # NULL /\ r.heart_rate # NULL}

----------------------------------------------------------------------------
(* Cohort query: main.py 117-163, validation.py 19-33 *)

\* the validator without its check of date_to
ValidateQueryUsersParamsNoDateTo(min_age, gender, min_avg_heart_rate, date_from, date_to) ==
    IF ~IsInstanceInt(min_age) THEN Raised("ValueError", "validate_query_users_params")
    ELSE IF gender.t # "str" THEN Raised("AttributeError", "validate_query_users_params")
    ELSE IF Upper(gender.s) \notin {"M", "F"} THEN Raised("ValueError", "validate_query_users_params")
    ELSE IF ~IsInstanceNumber(min_avg_heart_rate) THEN Raised("ValueError", "validate_query_users_params")
    ELSE IF ~IsInstanceDatetime(date_from) THEN Raised("ValueError", "validate_query_users_params")
    ELSE Ok

ValidateQueryUsersParams(min_age, gender, min_avg_heart_rate, date_from, date_to) ==
    IF ~IsInstanceInt(min_age) THEN Raised("ValueError", "validate_query_users_params")
    \* gender.upper() on a value that is no string
    ELSE IF gender.t # "str" THEN Raised("AttributeError", "validate_query_users_params")
    ELSE IF Upper(gender.s) \notin {"M", "F"} THEN Raised("ValueError", "validate_query_users_params")
    ELSE IF ~IsInstanceNumber(min_avg_heart_rate) THEN Raised("ValueError", "validate_query_users_params")
    ELSE IF ~IsInstanceDatetime(date_from) THEN Raised("ValueError", "validate_query_users_params")
    ELSE IF ~IsInstanceDatetime(date_to) THEN Raised("ValueError", "validate_query_users_params")
    ELSE Ok

\* lines 127-132
FilteredUsers(us, min_age, gender) ==
    {u.id : u \in {x \in us : /\ x.age # NULL
                              /\ Val(x.age) > min_age
                              /\ x.gender # NULL
                              /\ Val(x.gender) = Upper(gender)}}

\* the window with strict bounds, as playground.py writes it
UsersWindowStrict(rs, ids, date_from, date_to) ==
    {r \in Measured(rs) : /\ Val(r.timestamp) > date_from
                          /\ Val(r.timestamp) < date_to
                          /\ Val(r.user_id) \in ids}

\* lines 140-146: the WHERE of the aggregate subquery
UsersWindow(rs, ids, date_from, date_to) ==
    {r \in Measured(rs) : /\ Val(r.timestamp) >= date_from
                          /\ Val(r.timestamp) <= date_to
                          /\ Val(r.user_id) \in ids}

\* lines 147-149: GROUP BY user_id HAVING avg(heart_rate) > min_avg_heart_rate
AvgHeartRates(rs, ids, min_avg_heart_rate, date_from, date_to) ==
    LET w == UsersWindow(rs, ids, date_from, date_to)
        group(uid) == {r \in w : Val(r.user_id) = uid}
    IN {uid \in {Val(r.user_id) : r \in w} : FracGt(Avg(group(uid)), <<min_avg_heart_rate, 1>>)}

\* lines 154-163: users joined to the subquery on id, projected on name; the
\* rows as a bag: name -> number of rows carrying it
QueryUsers(us, rs, min_age, gender, min_avg_heart_rate, date_from, date_to) ==
    LET ids == FilteredUsers(us, min_age, gender)
        sub == AvgHeartRates(rs, ids, min_avg_heart_rate, date_from, date_to)
        joined == {u \in us : u.id \in sub}
    IN [n \in {u.name : u \in joined} |-> Cardinality({u \in joined : u.name = n})]

----------------------------------------------------------------------------
(* Top hourly averages: main.py 165-205, validation.py 36-46 *)

ValidateQueryForUserParams(user_id, date_from, date_to) ==
    IF ~IsInstanceInt(user_id) THEN Raised("ValueError", "validate_query_for_user_params")
    ELSE IF ~IsInstanceDatetime(date_from) THEN Raised("ValueError", "validate_query_for_user_params")
    ELSE IF ~IsInstanceDatetime(date_to) THEN Raised("ValueError", "validate_query_for_user_params")
    ELSE Ok

\* .limit(10)
Limit == 10

\* func.date_trunc('hour', timestamp): the timestamp at the start of its hour
DateTrunc(ts) == ts - (ts % TicksPerHour)

\* lines 189-193
ForUserWindow(rs, user_id, date_from, date_to) ==
    {r \in Measured(rs) : /\ Val(r.user_id) = user_id
                          /\ Val(r.timestamp) >= date_from
                          /\ Val(r.timestamp) <= date_to}

\* lines 176-187: one output row per reading, carrying the average of its
\* partition (user_id, hour); the rows as a function of the reading
WindowRows(w) ==
    [r \in w |-> [user_id |-> Val(r.user_id),
                  hour |-> DateTrunc(Val(r.timestamp)),
                  avg_heart_rate |->
                      Avg({x \in w : /\ Val(x.user_id) = Val(r.user_id)
                                     /\ DateTrunc(Val(x.timestamp)) = DateTrunc(Val(r.timestamp))})]]

\* the output rows without .distinct(): one per reading
KeepDuplicates(rows) ==
    {[user_id |-> rows[r].user_id, hour |-> rows[r].hour,
      avg_heart_rate |-> rows[r].avg_heart_rate, reading |-> r.id] : r \in DOMAIN rows}

\* line 195: .distinct() keeps one copy of each output row
Distinct(rows) == {rows[r] : r \in DOMAIN rows}

\* ORDER BY avg without DESC: smallest first
RECURSIVE OrderByAvgAsc(_)
OrderByAvgAsc(rows) ==
    IF rows = {} THEN <<>>
    ELSE LET low == CHOOSE x \in rows : \A y \in rows : FracGe(y[2], x[2])
         IN <<low[2]>> \o OrderByAvgAsc(rows \ {low})

\* ORDER BY avg DESC over a set of rows <<row, avg>>: the averages, largest first
RECURSIVE OrderByAvgDesc(_)
OrderByAvgDesc(rows) ==
    IF rows = {} THEN <<>>
    ELSE LET top == CHOOSE x \in rows : \A y \in rows : FracGe(x[2], y[2])
         IN <<top[2]>> \o OrderByAvgDesc(rows \ {top})

Take(seq, n) == SubSeq(seq, 1, IF Len(seq) < n THEN Len(seq) ELSE n)

\* lines 198-205
QueryForUser(rs, user_id, date_from, date_to) ==
    LET subquery == Distinct(WindowRows(ForUserWindow(rs, user_id, date_from, date_to)))
    IN Take(OrderByAvgDesc({<<row, row.avg_heart_rate>> : row \in subquery}), Limit)

----------------------------------------------------------------------------
(* Top hourly averages, GROUP BY form: playground.py 122-151 *)

\* func.strftime('%Y-%m-%d %H:00:00', timestamp): the date and the hour of day
Strftime(ts) == [date |-> ts \div TicksPerDay, hour |-> (ts % TicksPerDay) \div TicksPerHour]

\* lines 136-141: strict bounds
PlaygroundWindow(rs, user_id, date_from, date_to) ==
    {r \in Measured(rs) : /\ Val(r.user_id) = user_id
                          /\ Val(r.timestamp) > date_from
                          /\ Val(r.timestamp) < date_to}

\* lines 132-144: GROUP BY user_id, hour
PlaygroundGroups(w) ==
    {[user_id |-> k[1], hour |-> k[2],
      avg_hr |-> Avg({x \in w : Val(x.user_id) = k[1] /\ Strftime(Val(x.timestamp)) = k[2]})] :
        k \in {<<Val(r.user_id), Strftime(Val(r.timestamp))>> : r \in w}}

\* lines 145-151; the avg_hr column of the rows returned
PlaygroundQueryForUser(rs, user_id, date_from, date_to) ==
    LET groups == PlaygroundGroups(PlaygroundWindow(rs, user_id, date_from, date_to))
    IN Take(OrderByAvgDesc({<<row, row.avg_hr>> : row \in groups}), Limit)

----------------------------------------------------------------------------
(* Entry point configuration: main.py 208-234 *)

AgeFrom == 35
AgeTo == 50
DefaultUsers == 10
DaysOfMonitoring == 31
HrRecords == DaysOfMonitoring * HoursPerDay * TicksPerHour

\* ticks since datetime(2023, 1, 1); datetime(2024, 5, 18) is 503 days later
MainDateFrom == 0
DaysToMainDateTo == 503
MainDateTo == DaysToMainDateTo * TicksPerDay
MainMinAvgHeartRate == 70
MainMinAge == 40
MainUserId == 1

PopulateDbParams ==
    [users |-> PyInt(DefaultUsers),
     days_of_monitoring |-> PyInt(DaysOfMonitoring),
     hr_records_per_hour |-> PyInt(TicksPerHour),
     hr_records |-> PyInt(HrRecords),
     age_from |-> PyInt(AgeFrom),
     age_to |-> PyInt(AgeTo)]

QueryUsersParams ==
    [date_from |-> PyDatetime(MainDateFrom),
     date_to |-> PyDatetime(MainDateTo),
     min_avg_heart_rate |-> PyInt(MainMinAvgHeartRate),
     min_age |-> PyInt(MainMinAge),
     gender |-> PyStr("m")]

QueryForUserParams ==
    [user_id |-> PyInt(MainUserId),
     date_from |-> PyDatetime(MainDateFrom),
     date_to |-> PyDatetime(MainDateTo)]

\* the parameters of the three coroutines besides engine; none has a default
PopulateTablesParameters == {"num_of_users", "num_of_hr_records", "age_from", "age_to"}
QueryUsersParameters == {"min_age", "gender", "min_avg_heart_rate", "date_from", "date_to"}
QueryForUserParameters == {"user_id", "date_from", "date_to"}

\* f(engine, **kwargs) binds when the keys are exactly the parameters; Python
\* raises TypeError otherwise
KwargsBind(kwargs, parameters) == DOMAIN kwargs = parameters

----------------------------------------------------------------------------
(* The store before the first call, and the inputs of the seeder *)

PreUser == [id |-> 1, name |-> Some("Ann"), gender |-> Some("M"), age |-> Some(AgeTo)]
PreReading == [id |-> 1, user_id |-> Some(1), timestamp |-> Some(MainDateFrom),
               heart_rate |-> Some(HeartRateHigh)]

InitStores ==
    {[tables |-> FALSE, users |-> {}, readings |-> {}],
     [tables |-> TRUE, users |-> {}, readings |-> {}],
     [tables |-> TRUE, users |-> {PreUser}, readings |-> {}],
     [tables |-> TRUE, users |-> {PreUser}, readings |-> {PreReading}]}

CountArgs == {PyInt(n) : n \in (-1) .. MaxCount} \cup {PyFloat(1)}
AgeArgs == {PyInt(AgeFrom), PyInt(AgeTo), PyStr("x")}

\* datetime.now() at the seed: a month after the end of main()'s query window,
\* so that start_date is the last instant of the window
NowVals == {MainDateTo + DaysOfMonitoring * TicksPerDay}

NoLocals == [user_ids |-> <<>>, exists |-> NULL]
NoArgs == [none |-> TRUE]
NoResult == <<>>

Snapshot == [tables |-> dbTables, users |-> users, readings |-> readings]

\* the error of a statement on a connection: the database fails, or the table is missing
StatementError == IF ~dbTables THEN "ProgrammingError" ELSE "OperationalError"

----------------------------------------------------------------------------
(* populate_tables, step by step (one step per await): main.py 54-97 *)

\* line 60, and the return of control to the caller
EnterPopulate(a) ==
    LET v == ValidatePopulateTableParams(a.num_of_users, a.num_of_hr_records, a.age_to, a.age_from)
    IN /\ args' = a
       /\ pc' = IF v.status = "raised" THEN "idle" ELSE "p_connect"
       /\ outcome' = IF v.status = "raised" THEN v ELSE NoOutcome

PopulateEnd(out) ==
    IF op = "main" /\ out.status = "returned"
    THEN /\ pc' = "m_query_users"
         /\ outcome' = NoOutcome
         /\ mainTrace' = Append(mainTrace, "populate_tables")
    ELSE /\ pc' = "idle"
         /\ outcome' = out
         /\ mainTrace' = mainTrace

CallPopulateTables ==
    \E nu \in CountArgs, nh \in CountArgs, af \in AgeArgs, at \in AgeArgs :
        /\ pc = "idle"
        /\ calls < MaxCalls
        /\ calls' = calls + 1
        /\ op' = "populate_tables"
        /\ snap' = Snapshot
        /\ EnterPopulate([num_of_users |-> nu, num_of_hr_records |-> nh,
                          age_from |-> af, age_to |-> at])
        /\ mainTrace' = <<>>
        /\ locals' = NoLocals
        /\ result' = NoResult
        /\ dbOpened' = FALSE
        /\ UNCHANGED <<dbTables, users, readings, txUsers, txReadings>>

\* line 62: async with engine.connect() as conn
PopulateConnect ==
    /\ pc = "p_connect"
    /\ \E fail \in BOOLEAN :
        IF fail
        THEN /\ PopulateEnd(Raised("OperationalError", "engine.connect"))
             /\ dbOpened' = dbOpened
        ELSE /\ pc' = "p_insert_users"
             /\ dbOpened' = TRUE
             /\ UNCHANGED <<outcome, mainTrace>>
    /\ UNCHANGED <<dbTables, users, readings, txUsers, txReadings, op, args, locals,
                   result, snap, calls>>

\* lines 64-76: build the user dictionaries, insert them in one statement
PopulateInsertUsers ==
    /\ pc = "p_insert_users"
    /\ LET n == args.num_of_users.v
           base == NextId(users)
       IN IF RandintRaises(n, args.age_from.v, args.age_to.v)
          THEN /\ Rollback
               /\ PopulateEnd(Raised("ValueError", "random.randint"))
          ELSE \E batch \in UserBatches(n, args.age_from.v, args.age_to.v),
                  k \in EmptyInsertRows, fail \in BOOLEAN :
                 IF fail \/ ~dbTables
                 THEN /\ Rollback
                      /\ PopulateEnd(Raised(StatementError, "insert users"))
                 ELSE /\ txUsers' = IF DOMAIN batch # {} THEN UserRows(batch, base)
                                    ELSE IF k = 1 THEN {DefaultUser(base)} ELSE {}
                      /\ pc' = "p_fetch_ids"
                      /\ UNCHANGED <<users, readings, txReadings, outcome, mainTrace>>
    /\ UNCHANGED <<dbTables, op, args, locals, result, dbOpened, snap, calls>>

\* lines 79-80: the ids of all rows of users the connection sees
PopulateFetchIds ==
    /\ pc = "p_fetch_ids"
    /\ \E fail \in BOOLEAN :
        IF fail
        THEN /\ Rollback
             /\ PopulateEnd(Raised(StatementError, "select ids"))
             /\ locals' = locals
        ELSE /\ locals' = [locals EXCEPT
                              !.user_ids = SortedIds({u.id : u \in users \cup txUsers})]
             /\ pc' = "p_insert_readings"
             /\ UNCHANGED <<users, readings, txUsers, txReadings, outcome, mainTrace>>
    /\ UNCHANGED <<dbTables, op, args, result, dbOpened, snap, calls>>

\* lines 83-96: build the reading dictionaries, insert them in one statement
PopulateInsertReadings ==
    /\ pc = "p_insert_readings"
    /\ LET n == args.num_of_hr_records.v
           keys == (DOMAIN locals.user_ids) \X Range(n)
           base == NextId(readings)
       IN \E hr \in [keys -> SeedHeartRates], k \in EmptyInsertRows, fail \in BOOLEAN,
             now \in NowVals :
            IF fail
            THEN /\ Rollback
                 /\ PopulateEnd(Raised(StatementError, "insert heart_rates"))
            ELSE /\ txReadings' =
                        IF keys # {}
                        THEN ReadingRows(locals.user_ids, n,
                                         now - DaysOfMonitoring * TicksPerDay, hr, base)
                        ELSE IF k = 1 THEN {DefaultReading(base)} ELSE {}
                 /\ pc' = "p_commit"
                 /\ UNCHANGED <<users, readings, txUsers, outcome, mainTrace>>
    /\ UNCHANGED <<dbTables, op, args, locals, result, dbOpened, snap, calls>>

\* line 97
PopulateCommit ==
    /\ pc = "p_commit"
    /\ \E fail \in BOOLEAN :
        IF fail
        THEN /\ Rollback
             /\ PopulateEnd(Raised(StatementError, "commit"))
        ELSE /\ Commit
             /\ PopulateEnd(Ok)
    /\ UNCHANGED <<dbTables, op, args, locals, result, dbOpened, snap, calls>>

----------------------------------------------------------------------------
(* Direct calls of the schema and guard coroutines: main.py 48-51, 99-114 *)

CallCheckAndCreateTables ==
    /\ pc = "idle"
    /\ op' = "check_and_create_tables"
    /\ snap' = Snapshot
    /\ dbTables' = CheckAndCreateTables(dbTables)
    /\ dbOpened' = TRUE
    /\ outcome' = Ok
    /\ args' = NoArgs
    /\ result' = NoResult
    /\ locals' = NoLocals
    /\ mainTrace' = <<>>
    /\ UNCHANGED <<users, readings, txUsers, txReadings, pc, calls>>

CallDatabaseExists ==
    /\ pc = "idle"
    /\ op' = "database_exists"
    /\ snap' = Snapshot
    /\ dbOpened' = TRUE
    /\ IF dbTables
       THEN /\ outcome' = Ok
            /\ result' = Some(DatabaseExists(users, readings))
       ELSE /\ outcome' = Raised("ProgrammingError", "database_exists")
            /\ result' = NoResult
    /\ args' = NoArgs
    /\ locals' = NoLocals
    /\ mainTrace' = <<>>
    /\ UNCHANGED <<dbTables, users, readings, txUsers, txReadings, pc, calls>>

----------------------------------------------------------------------------
(* main(), step by step: main.py 208-255 *)

MainRaise(e, where) ==
    /\ pc' = "idle"
    /\ outcome' = Raised(e, where)

\* lines 209-237
MainStart ==
    /\ pc = "idle"
    /\ calls < MaxCalls
    /\ calls' = calls + 1
    /\ op' = "main"
    /\ pc' = "m_check_and_create_tables"
    /\ snap' = Snapshot
    /\ outcome' = NoOutcome
    /\ args' = NoArgs
    /\ result' = NoResult
    /\ locals' = NoLocals
    /\ mainTrace' = <<>>
    /\ dbOpened' = FALSE
    /\ UNCHANGED <<dbTables, users, readings, txUsers, txReadings>>

\* line 240
MainCheckAndCreateTables ==
    /\ pc = "m_check_and_create_tables"
    /\ dbTables' = CheckAndCreateTables(dbTables)
    /\ dbOpened' = TRUE
    /\ mainTrace' = Append(mainTrace, "check_and_create_tables")
    /\ pc' = "m_database_exists"
    /\ UNCHANGED <<users, readings, txUsers, txReadings, op, args, locals, outcome,
                   result, snap, calls>>

\* line 243
MainDatabaseExists ==
    /\ pc = "m_database_exists"
    /\ IF dbTables
       THEN /\ locals' = [locals EXCEPT !.exists = Some(DatabaseExists(users, readings))]
            /\ mainTrace' = Append(mainTrace, "database_exists")
            /\ pc' = IF DatabaseExists(users, readings) THEN "m_query_users"
                     ELSE "m_populate_tables"
            /\ outcome' = outcome
       ELSE /\ MainRaise("ProgrammingError", "database_exists")
            /\ UNCHANGED <<locals, mainTrace>>
    /\ UNCHANGED <<dbTables, users, readings, txUsers, txReadings, op, args, result,
                   dbOpened, snap, calls>>

\* line 244: populate_tables(engine, **populate_db_params)
MainPopulateTables ==
    /\ pc = "m_populate_tables"
    /\ IF KwargsBind(PopulateDbParams, PopulateTablesParameters)
       THEN EnterPopulate([num_of_users |-> PopulateDbParams.num_of_users,
                           num_of_hr_records |-> PopulateDbParams.num_of_hr_records,
                           age_from |-> PopulateDbParams.age_from,
                           age_to |-> PopulateDbParams.age_to])
       ELSE /\ MainRaise("TypeError", "populate_tables")
            /\ args' = args
    /\ UNCHANGED <<dbTables, users, readings, txUsers, txReadings, op, locals, result,
                   dbOpened, snap, mainTrace, calls>>

\* lines 247-250
MainQueryUsers ==
    /\ pc = "m_query_users"
    /\ LET a == QueryUsersParams
           v == ValidateQueryUsersParams(a.min_age, a.gender, a.min_avg_heart_rate,
                                         a.date_from, a.date_to)
       IN IF ~KwargsBind(a, QueryUsersParameters)
          THEN MainRaise("TypeError", "query_users") /\ UNCHANGED <<result, mainTrace>>
          ELSE IF v.status = "raised"
          THEN MainRaise(v.err, v.by) /\ UNCHANGED <<result, mainTrace>>
          ELSE IF ~dbTables
          THEN MainRaise("ProgrammingError", "query_users") /\ UNCHANGED <<result, mainTrace>>
          ELSE /\ result' = QueryUsers(users, readings, a.min_age.v, a.gender.s,
                                       a.min_avg_heart_rate.v, a.date_from.v, a.date_to.v)
               /\ mainTrace' = Append(mainTrace, "query_users")
               /\ pc' = "m_query_for_user"
               /\ outcome' = outcome
    /\ UNCHANGED <<dbTables, users, readings, txUsers, txReadings, op, args, locals,
                   dbOpened, snap, calls>>

\* lines 252-255
MainQueryForUser ==
    /\ pc = "m_query_for_user"
    /\ LET a == QueryForUserParams
           v == ValidateQueryForUserParams(a.user_id, a.date_from, a.date_to)
       IN IF ~KwargsBind(a, QueryForUserParameters)
          THEN MainRaise("TypeError", "query_for_user") /\ UNCHANGED <<result, mainTrace>>
          ELSE IF v.status = "raised"
          THEN MainRaise(v.err, v.by) /\ UNCHANGED <<result, mainTrace>>
          ELSE IF ~dbTables
          THEN MainRaise("ProgrammingError", "query_for_user") /\ UNCHANGED <<result, mainTrace>>
          ELSE /\ result' = QueryForUser(readings, a.user_id.v, a.date_from.v, a.date_to.v)
               /\ mainTrace' = Append(mainTrace, "query_for_user")
               /\ pc' = "idle"
               /\ outcome' = Ok
    /\ UNCHANGED <<dbTables, users, readings, txUsers, txReadings, op, args, locals,
                   dbOpened, snap, calls>>

----------------------------------------------------------------------------
(* The seeding and entry-point specification *)

Init ==
    /\ \E s \in InitStores :
        /\ dbTables = s.tables
        /\ users = s.users
        /\ readings = s.readings
    /\ txUsers = {}
    /\ txReadings = {}
    /\ op = "none"
    /\ pc = "idle"
    /\ args = NoArgs
    /\ locals = NoLocals
    /\ outcome = NoOutcome
    /\ result = NoResult
    /\ dbOpened = FALSE
    /\ snap = Snapshot
    /\ mainTrace = <<>>
    /\ calls = 0

Next ==
    \/ CallCheckAndCreateTables
    \/ CallDatabaseExists
    \/ CallPopulateTables
    \/ PopulateConnect
    \/ PopulateInsertUsers
    \/ PopulateFetchIds
    \/ PopulateInsertReadings
    \/ PopulateCommit
    \/ MainStart
    \/ MainCheckAndCreateTables
    \/ MainDatabaseExists
    \/ MainPopulateTables
    \/ MainQueryUsers
    \/ MainQueryForUser

Spec == Init /\ [][Next]_vars

----------------------------------------------------------------------------
(* Properties of the seeder, the guard and the entry point *)

PopulatePcs == {"p_connect", "p_insert_users", "p_fetch_ids", "p_insert_readings", "p_commit"}
DatabaseErrors == {"OperationalError", "ProgrammingError"}

PopulateEnded == op = "populate_tables" /\ pc = "idle"

\* the seed preconditions of the specification
ValidSeedArgs(a) ==
    /\ IsInstanceInt(a.num_of_users) /\ a.num_of_users.v >= 0
    /\ IsInstanceInt(a.num_of_hr_records) /\ a.num_of_hr_records.v >= 0
    /\ IsInstanceInt(a.age_from) /\ IsInstanceInt(a.age_to)
    /\ a.age_from.v < a.age_to.v

AddedUsers == users \ snap.users
AddedReadings == readings \ snap.readings

\* C1: a populate_tables call with non-negative integer counts and
\* age_from < age_to, on any store, completes without error (the database
\* not failing), adds num_of_users * num_of_hr_records reading rows, and each
\* reading row it adds references a user row it added.
C1_ValidSeedCompletes ==
    (PopulateEnded /\ ValidSeedArgs(args) /\ outcome.err \notin DatabaseErrors) =>
        /\ outcome = Ok
        /\ Cardinality(AddedReadings) = args.num_of_users.v * args.num_of_hr_records.v
        /\ \A r \in AddedReadings : \E u \in AddedUsers : r.user_id = Some(u.id)

\* C2: a populate_tables call that violates a seed precondition ends in a
\* validation error raised by validate_populate_table_params, with the store
\* unchanged.
C2_InvalidSeedRejectedByValidator ==
    (PopulateEnded /\ ~ValidSeedArgs(args) /\ outcome.err \notin DatabaseErrors) =>
        /\ outcome = Raised("ValueError", "validate_populate_table_params")
        /\ ~dbOpened
        /\ users = snap.users /\ readings = snap.readings

\* C3: a run of main() on a database whose tables exist and are empty ends
\* without raising after, in this order, ensuring the schema, finding the
\* store empty, seeding it, running query_users and running query_for_user.
C3_MainSeedsThenQueries ==
    (op = "main" /\ pc = "idle" /\ snap.tables /\ snap.users = {} /\ snap.readings = {}) =>
        /\ outcome = Ok
        /\ mainTrace = <<"check_and_create_tables", "database_exists", "populate_tables",
                         "query_users", "query_for_user">>

\* C4: after check_and_create_tables, from a database with or without the
\* tables, both tables exist, and the rows are as before.
C4_SchemaExistsAfterEnsure ==
    (op = "check_and_create_tables" \/ (op = "main" /\ Len(mainTrace) >= 1)) =>
        /\ dbTables
        /\ (op = "check_and_create_tables" => users = snap.users /\ readings = snap.readings)

C6_SeedAllOrNothing ==
    /\ pc \in PopulatePcs => (users = snap.users /\ readings = snap.readings)
    /\ (op \in {"populate_tables", "main"} /\ pc = "idle" /\ outcome.status = "raised") =>
            /\ users = snap.users /\ readings = snap.readings
            /\ txUsers = {} /\ txReadings = {}
    /\ (PopulateEnded /\ outcome = Ok) =>
            \A u \in AddedUsers :
                Cardinality({r \in AddedReadings : r.user_id = Some(u.id)})
                    = (IF args.num_of_hr_records.v > 0 THEN args.num_of_hr_records.v ELSE 0)

C6_Witness ==
    /\ PopulateEnded
    /\ outcome = Raised("OperationalError", "commit")
    /\ locals.user_ids # <<>> /\ args.num_of_hr_records.v >= 1
    /\ users = snap.users /\ readings = snap.readings

----------------------------------------------------------------------------
(* Direct calls of the two queries: main.py 117-205, playground.py 122-151 *)

\* The queries write nothing, so every call on a store sees the store the
\* behaviour started from: a behaviour of the query specifications makes one call.
FirstCall == pc = "idle" /\ op = "none"

CallQueryUsers(argSet) ==
    \E a \in argSet :
        /\ FirstCall
        /\ op' = "query_users"
        /\ args' = a
        /\ snap' = Snapshot
        /\ LET v == ValidateQueryUsersParams(a.min_age, a.gender, a.min_avg_heart_rate,
                                             a.date_from, a.date_to)
           IN IF v.status = "raised"
              THEN outcome' = v /\ dbOpened' = FALSE /\ result' = NoResult
              ELSE IF ~dbTables
              THEN /\ outcome' = Raised("ProgrammingError", "query_users")
                   /\ dbOpened' = TRUE
                   /\ result' = NoResult
              ELSE /\ outcome' = Ok
                   /\ dbOpened' = TRUE
                   /\ result' = QueryUsers(users, readings, a.min_age.v, a.gender.s,
                                           a.min_avg_heart_rate.v, a.date_from.v, a.date_to.v)
        /\ UNCHANGED <<dbTables, users, readings, txUsers, txReadings, pc, locals,
                       mainTrace, calls>>

CallQueryForUser(argSet) ==
    \E a \in argSet :
        /\ FirstCall
        /\ op' = "query_for_user"
        /\ args' = a
        /\ snap' = Snapshot
        /\ LET v == ValidateQueryForUserParams(a.user_id, a.date_from, a.date_to)
           IN IF v.status = "raised"
              THEN outcome' = v /\ dbOpened' = FALSE /\ result' = NoResult
              ELSE IF ~dbTables
              THEN /\ outcome' = Raised("ProgrammingError", "query_for_user")
                   /\ dbOpened' = TRUE
                   /\ result' = NoResult
              ELSE /\ outcome' = Ok
                   /\ dbOpened' = TRUE
                   /\ result' = QueryForUser(readings, a.user_id.v, a.date_from.v, a.date_to.v)
        /\ UNCHANGED <<dbTables, users, readings, txUsers, txReadings, pc, locals,
                       mainTrace, calls>>

\* playground.py validates nothing and runs on its own engine
CallPlaygroundQueryForUser(argSet) ==
    \E a \in argSet :
        /\ FirstCall
        /\ op' = "playground.query_for_user"
        /\ args' = a
        /\ snap' = Snapshot
        /\ outcome' = Ok
        /\ dbOpened' = TRUE
        /\ result' = PlaygroundQueryForUser(readings, a.user_id.v, a.date_from.v, a.date_to.v)
        /\ UNCHANGED <<dbTables, users, readings, txUsers, txReadings, pc, locals,
                       mainTrace, calls>>

\* the state around a store that the query specifications start from
InitAround(us, rs) ==
    /\ dbTables = TRUE
    /\ users = us
    /\ readings = rs
    /\ txUsers = {}
    /\ txReadings = {}
    /\ op = "none"
    /\ pc = "idle"
    /\ args = NoArgs
    /\ locals = NoLocals
    /\ outcome = NoOutcome
    /\ result = NoResult
    /\ dbOpened = FALSE
    /\ snap = [tables |-> TRUE, users |-> us, readings |-> rs]
    /\ mainTrace = <<>>
    /\ calls = 0

----------------------------------------------------------------------------
(* Cohort query over bounded stores *)

\* readings a user of the store may hold
MaxReadingsPerUser == 2

CohortUserIds == {1, 2}
CohortAges == {MainMinAge, MainMinAge + 1}
CohortTimes == {MainDateFrom, MainDateFrom + TicksPerHour}
\* the readings a user may hold: <<timestamp, heart rate>>
CohortSamples ==
    <<<<MainDateFrom, MainMinAvgHeartRate - 1>>,
      <<MainDateFrom, MainMinAvgHeartRate + 1>>,
      <<MainDateFrom + TicksPerHour, MainMinAvgHeartRate - 1>>,
      <<MainDateFrom + TicksPerHour, MainMinAvgHeartRate + 1>>>>

CohortPicks == {S \in SUBSET (DOMAIN CohortSamples) : Cardinality(S) <= MaxReadingsPerUser}

CohortUsers(gender, age, sameName) ==
    {[id |-> u,
      name |-> Some(IF sameName \/ u = 1 THEN "Ann" ELSE "Bob"),
      gender |-> Some(gender[u]),
      age |-> Some(age[u])] : u \in CohortUserIds}

CohortReadings(picks) ==
    {[id |-> (u - 1) * Len(CohortSamples) + k,
      user_id |-> Some(u),
      timestamp |-> Some(CohortSamples[k][1]),
      heart_rate |-> Some(CohortSamples[k][2])] :
        <<u, k>> \in {p \in CohortUserIds \X DOMAIN CohortSamples : p[2] \in picks[p[1]]}}

CohortArgs ==
    [min_age : {PyInt(MainMinAge)},
     gender : {PyStr("m"), PyStr("M"), PyStr("F")},
     min_avg_heart_rate : {PyInt(MainMinAvgHeartRate)},
     date_from : {PyDatetime(t) : t \in CohortTimes},
     date_to : {PyDatetime(t) : t \in CohortTimes}]

InitUsers ==
    \E gender \in [CohortUserIds -> Genders], age \in [CohortUserIds -> CohortAges],
       sameName \in BOOLEAN, picks \in [CohortUserIds -> CohortPicks] :
        InitAround(CohortUsers(gender, age, sameName), CohortReadings(picks))

NextUsers == CallQueryUsers(CohortArgs)

SpecUsers == InitUsers /\ [][NextUsers]_vars

\* the readings of user u with date_from <= timestamp <= date_to
InWindow(u, date_from, date_to) ==
    {r \in readings : /\ r.user_id = Some(u.id)
                      /\ date_from <= Val(r.timestamp)
                      /\ Val(r.timestamp) <= date_to}

\* u is strictly older than min_age, has the upper-cased gender, has a reading
\* in the window, and the mean of its readings there strictly exceeds the threshold
InCohort(u, a) ==
    LET w == InWindow(u, a.date_from.v, a.date_to.v)
    IN /\ Val(u.age) > a.min_age.v
       /\ Val(u.gender) = Upper(a.gender.s)
       /\ w # {}
       /\ SumHeartRate(w) > a.min_avg_heart_rate.v * Cardinality(w)

RowsNamed(bag, n) == IF n \in DOMAIN bag THEN bag[n] ELSE 0

\* C7: query_users returns one row for exactly the users older than min_age,
\* of the upper-cased gender, with a reading in the inclusive window and a
\* window mean strictly above min_avg_heart_rate; date_from > date_to gives
\* no row and no error.
C7_CohortExact ==
    op = "query_users" =>
        /\ outcome = Ok
        /\ \A n \in {u.name : u \in users} \cup DOMAIN result :
                RowsNamed(result, n) = Cardinality({u \in users : u.name = n /\ InCohort(u, args)})
        /\ args.date_from.v > args.date_to.v => DOMAIN result = {}

\* a call that returns one user and leaves out another of the same gender, also
\* older than min_age, whose window mean equals the threshold
C7_Witness ==
    /\ op = "query_users" /\ outcome = Ok
    /\ \E u, v \in users :
        /\ InCohort(u, args)
        /\ RowsNamed(result, u.name) = 1
        /\ v.gender = u.gender
        /\ Val(v.age) > args.min_age.v
        /\ RowsNamed(result, v.name) = 0
        /\ LET w == InWindow(v, args.date_from.v, args.date_to.v)
           IN /\ w # {}
              /\ SumHeartRate(w) = args.min_avg_heart_rate.v * Cardinality(w)

----------------------------------------------------------------------------
(* Hourly queries over bounded stores *)

\* readings of user 1 in the store: two in the first hour, one in each later hour
NumSlots == 12

\* the first hour with data: two hours before midnight
FirstHour == HoursPerDay - 2

\* the timestamp of slot k: slots 1 and 2 share the first hour, half an hour apart
SlotTime(k) ==
    IF k = 1 THEN FirstHour * TicksPerHour
    ELSE (FirstHour + k - 2) * TicksPerHour + TicksPerHour \div 2

HourlyUserIds == {1, 2, 3}

\* user 1 holds one reading per slot, user 2 one reading in the first hour, user 3 none
HourlyReadings(hr) ==
    {[id |-> k, user_id |-> Some(1), timestamp |-> Some(SlotTime(k)),
      heart_rate |-> Some(hr[k])] : k \in 1 .. NumSlots}
    \cup {[id |-> NumSlots + 1, user_id |-> Some(2), timestamp |-> Some(SlotTime(1)),
           heart_rate |-> Some(HeartRateHigh)]}

HourlyUsers ==
    {[id |-> u, name |-> Some("Ann"), gender |-> Some("M"), age |-> Some(AgeTo)] : u \in {1, 2}}

HourlyFrom == {SlotTime(1), SlotTime(2)}
HourlyTo == {SlotTime(1), SlotTime(NumSlots - 1), SlotTime(NumSlots)}

HourlyArgs ==
    [user_id : {PyInt(u) : u \in HourlyUserIds},
     date_from : {PyDatetime(t) : t \in HourlyFrom},
     date_to : {PyDatetime(t) : t \in HourlyTo}]

\* the same windows written with strict bounds, one tick wider on each side
PlaygroundArgs ==
    [user_id : {PyInt(u) : u \in HourlyUserIds},
     date_from : {PyDatetime(t - 1) : t \in HourlyFrom},
     date_to : {PyDatetime(t + 1) : t \in HourlyTo}]

InitHourly ==
    \E hr \in [1 .. NumSlots -> HeartRateVals] : InitAround(HourlyUsers, HourlyReadings(hr))

NextHourly ==
    \/ CallQueryForUser(HourlyArgs)
    \/ CallPlaygroundQueryForUser(PlaygroundArgs)

SpecHourly == InitHourly /\ [][NextHourly]_vars

\* the calendar hours in which user u has a reading with date_from <= timestamp <= date_to
HourOf(r) == Val(r.timestamp) \div TicksPerHour

Bucket(u, date_from, date_to, h) ==
    {r \in readings : /\ r.user_id = Some(u)
                      /\ date_from <= Val(r.timestamp)
                      /\ Val(r.timestamp) <= date_to
                      /\ HourOf(r) = h}

HoursWithData(u, date_from, date_to) ==
    {h \in {HourOf(r) : r \in readings} : Bucket(u, date_from, date_to, h) # {}}

\* the mean of a bucket as sum over count, and equality of two such fractions
Mean(rows) == <<SumHeartRate(rows), Cardinality(rows)>>
FracEq(a, b) == a[1] * b[2] = b[1] * a[2]

\* C8: query_for_user returns min(10, H) rows, H the number of calendar hours
\* with a reading of the user in the inclusive window; every row is the mean
\* of such an hour, no hour is used twice, the rows are non-increasing, and an
\* hour left out has a mean no greater than any row; an unknown user or
\* date_from > date_to gives no row and no error.
C8_TopHourly ==
    op = "query_for_user" =>
        \A H \in {HoursWithData(args.user_id.v, args.date_from.v, args.date_to.v)} :
        \A mean \in {[h \in H |-> Mean(Bucket(args.user_id.v, args.date_from.v,
                                               args.date_to.v, h))]} :
        \A rowsLike \in {[h \in H |->
                            Cardinality({i \in DOMAIN result : FracEq(result[i], mean[h])})]} :
        \A hoursLike \in {[h \in H |-> Cardinality({g \in H : FracEq(mean[g], mean[h])})]} :
           /\ outcome = Ok
           /\ Len(result) = (IF Cardinality(H) < 10 THEN Cardinality(H) ELSE 10)
           /\ \A i \in DOMAIN result : \E h \in H : FracEq(result[i], mean[h])
           /\ \A h \in H : rowsLike[h] <= hoursLike[h]
           /\ \A i \in DOMAIN result : i > 1 => FracGe(result[i - 1], result[i])
           /\ \A h \in H : rowsLike[h] < hoursLike[h] =>
                    \A i \in DOMAIN result : FracGe(result[i], mean[h])
           /\ (args.date_from.v > args.date_to.v
                \/ ~\E r \in readings : r.user_id = Some(args.user_id.v)) => result = <<>>

\* more than ten hours with data, ten rows returned, not all equal, and the
\* first hour holding two readings
C8_Witness ==
    /\ op = "query_for_user" /\ outcome = Ok
    /\ Cardinality(HoursWithData(args.user_id.v, args.date_from.v, args.date_to.v)) > 10
    /\ Len(result) = 10
    /\ result[1] # result[10]
    /\ Cardinality(Bucket(args.user_id.v, args.date_from.v, args.date_to.v, FirstHour)) = 2

\* C10: on the same window and the same hour truncation, the window-function
\* form of main.py and the GROUP BY form of playground.py return the same
\* averages in the same non-increasing order.  The strict window
\* (date_from - 1, date_to + 1) of playground.py holds the timestamps of the
\* inclusive window [date_from, date_to] of main.py.
C10_HourlyFormsAgree ==
    /\ (op = "query_for_user" /\ outcome = Ok) =>
            result = PlaygroundQueryForUser(readings, args.user_id.v,
                                            args.date_from.v - 1, args.date_to.v + 1)
    /\ op = "playground.query_for_user" =>
            result = QueryForUser(readings, args.user_id.v,
                                  args.date_from.v + 1, args.date_to.v - 1)

\* the GROUP BY form returns two rows with equal averages, for a window that
\* holds an hour with two readings
C10_Witness ==
    /\ op = "playground.query_for_user"
    /\ Len(result) >= 2
    /\ \E i \in DOMAIN result : i > 1 /\ result[i - 1] = result[i]
    /\ Cardinality(Bucket(args.user_id.v, args.date_from.v + 1, args.date_to.v - 1,
                          FirstHour)) = 2

----------------------------------------------------------------------------
(* The validators in front of the two queries *)

\* values of every type a caller may pass
AnyMinAge == {PyInt(MainMinAge), PyFloat(MainMinAge), PyStr("x")}
AnyGender == {PyStr("m"), PyStr("F"), PyStr("x"), PyNone, PyInt(1)}
AnyRate == {PyInt(MainMinAvgHeartRate), PyFloat(MainMinAvgHeartRate), PyStr("x")}
AnyDate == {PyDatetime(MainDateFrom), PyStr("x"), PyNone}
AnyUserId == {PyInt(MainUserId), PyFloat(MainUserId), PyStr("x")}

AnyQueryUsersArgs ==
    [min_age : AnyMinAge, gender : AnyGender, min_avg_heart_rate : AnyRate,
     date_from : AnyDate, date_to : AnyDate]

AnyQueryForUserArgs == [user_id : AnyUserId, date_from : AnyDate, date_to : AnyDate]

InitValidate ==
    \E s \in {x \in InitStores : x.tables} : InitAround(s.users, s.readings)

NextValidate ==
    \/ CallQueryUsers(AnyQueryUsersArgs)
    \/ CallQueryForUser(AnyQueryForUserArgs)

SpecValidate == InitValidate /\ [][NextValidate]_vars

\* an argument tuple that fails a check of the specification
InvalidQueryUsersArgs(a) ==
    \/ a.min_age.t # "int"
    \/ a.gender.t # "str"
    \/ (a.gender.t = "str" /\ a.gender.s \notin {"m", "M", "f", "F"})
    \/ a.min_avg_heart_rate.t \notin {"int", "float"}
    \/ a.date_from.t # "datetime"
    \/ a.date_to.t # "datetime"

InvalidQueryForUserArgs(a) ==
    \/ a.user_id.t # "int"
    \/ a.date_from.t # "datetime"
    \/ a.date_to.t # "datetime"

====
